---- MODULE Spec2Model ----
(***************************************************************************)
(* Giovanni travel blog: the itinerary state machine.                      *)
(*   app.js                      checkLocationStatus, generateDailyPost    *)
(*   move_to_next_location.js    moveToNextLocation                        *)
(*   travel-post-generator.js    createTravelPost                          *)
(*   TravelPlannerService.js     selectNextCity, getBackupCity,            *)
(*                               selectPlacesToVisit                       *)
(*   PostGeneratorService.js     generateAndPublishPost and its write-back *)
(*   initJourneyDynamic.js       initializeDynamicJourney                  *)
(* The SQLite tables are the state; every handler is one action.           *)
(***************************************************************************)
EXTENDS Integers, Sequences, FiniteSets, TLC

VARIABLES
  locations,       \* table locations: row id = index in the sequence
  transportation,  \* table transportation: sequence of legs
  pois,            \* table points_of_interest: row id = index
  visits,          \* table visits: sequence of rows
  lastCycle,       \* the latest cron tick: its branch, what the CMS published
  cycles,          \* cron ticks so far
  minDaysEnv,      \* process.env.MIN_DAYS_PER_LOCATION
  maxDaysEnv,      \* process.env.MAX_DAYS_PER_LOCATION
  writeFaults,     \* repository writes that have failed so far
  lastPlan,        \* the selectNextCity call of the latest handler run
  lastPlaces,      \* its selectPlacesToVisit call (NoPlan, NoPlaces: none)
  used_images,     \* table used_images: the unsplash_id of every row
  requestCount,    \* UnsplashService.requestCount
  search,          \* the searchImage call in progress, or its result
  imageRequest,    \* the ImageService.searchImage call around it
  used_prompts,    \* table used_images: the freepik_prompt_hash of every row
  freepikRequestCount, \* FreepikService.requestCount
  generated,       \* what the latest FreepikService.generateImage call did
  now,             \* Date.now(), in seconds since OpenAIService was built
  lastResetTime,   \* OpenAIService.lastResetTime
  textRequestCount,\* OpenAIService.requestCount
  sent,            \* send times of the text requests of the latest minute
  runs             \* the moveToNextLocation calls in flight, by cycle

journeyVars == <<locations, transportation, pois, visits, lastCycle, cycles,
                 minDaysEnv, maxDaysEnv, writeFaults, lastPlan, lastPlaces>>

freepikVars == <<used_prompts, freepikRequestCount, generated>>

imageVars == <<used_images, requestCount, search, imageRequest, freepikVars>>

rateVars == <<now, lastResetTime, textRequestCount, sent, runs>>

vars == <<locations, transportation, pois, visits, lastCycle, cycles,
          minDaysEnv, maxDaysEnv, writeFaults, lastPlan, lastPlaces,
          used_images, requestCount, search, imageRequest,
          used_prompts, freepikRequestCount, generated,
          now, lastResetTime, textRequestCount, sent, runs>>

(***************************************************************************)
(* Bounds of the exploration.                                              *)
(***************************************************************************)
MaxCycles == 3
MaxLocations == 3
MaxGen == 2
MaxCands == 2
NumCountries == 2
CitiesPerCountry == 1
MaxDurationDraw == 0
MaxWriteFaults == 1
NumImages == 2
MaxDayLocations == 2
MaxTime == 125
NumOverlappingCycles == 2
NumPrompts == 2
ConfiguredRateLimit == 2

(***************************************************************************)
(* Program constants.                                                      *)
(***************************************************************************)
DefaultMinDays == 7
DefaultMaxDays == 21
FirstPlannedDuration == 14
MinPlannedDuration == 10
PlannedDurationSpread == 5
AirplaneAbove == 700
TrainAbove == 300

Unset == -1
NULL == 0

Min(a, b) == IF a < b THEN a ELSE b

(***************************************************************************)
(* Strings.  String.prototype.toLowerCase over the strings of the model.   *)
(***************************************************************************)
LowerTable ==
  << <<"Serbia", "serbia">>, <<"SERBIA", "serbia">>,
     <<"Croatia", "croatia">>, <<"CROATIA", "croatia">>,
     <<"Italy", "italy">>, <<"Montenegro", "montenegro">>,
     <<"Republic of Serbia", "republic of serbia">>,
     <<"Bulgaria", "bulgaria">>, <<"Hungary", "hungary">>,
     <<"Greece", "greece">>, <<"Romania", "romania">>,
     <<"North Macedonia", "north macedonia">>,
     <<"Czech Republic", "czech republic">>,
     <<"Novi Sad", "novi sad">>, <<"NOVI SAD", "novi sad">>,
     <<"Subotica", "subotica">>, <<"Nis", "nis">>,
     <<"Kragujevac", "kragujevac">>,
     <<"Rovinj", "rovinj">>, <<"Split", "split">>, <<"Zadar", "zadar">>,
     <<"Dubrovnik", "dubrovnik">>,
     <<"Orvieto", "orvieto">>, <<"Lucca", "lucca">>, <<"Matera", "matera">>,
     <<"Siena", "siena">>,
     <<"Kotor", "kotor">>, <<"Budva", "budva">>,
     <<"Herceg Novi", "herceg novi">>, <<"Cetinje", "cetinje">>,
     <<"Sopron", "sopron">>, <<"Unknown Town", "unknown town">> >>

Outskirts(name) == name \o " Outskirts"

toLowerCase(s) ==
  IF \E i \in 1..Len(LowerTable) : LowerTable[i][1] = s
  THEN LowerTable[CHOOSE i \in 1..Len(LowerTable) : LowerTable[i][1] = s][2]
  ELSE IF \E i \in 1..Len(LowerTable) : Outskirts(LowerTable[i][1]) = s
  THEN LowerTable[CHOOSE i \in 1..Len(LowerTable) :
                     Outskirts(LowerTable[i][1]) = s][2] \o " outskirts"
  ELSE s

(***************************************************************************)
(* TravelPlannerService: static tables.                                    *)
(***************************************************************************)
priorityCountriesAll ==
  <<"Serbia", "Croatia", "Italy", "Montenegro", "Bulgaria", "Hungary",
    "Greece", "Romania", "North Macedonia", "Czech Republic">>

\* The first four entries of the table of getBackupCity.
backupCitiesAll ==
  << [country |-> "Serbia",
      cities |-> <<"Novi Sad", "Subotica", "Nis", "Kragujevac">>],
     [country |-> "Croatia",
      cities |-> <<"Rovinj", "Split", "Zadar", "Dubrovnik">>],
     [country |-> "Italy",
      cities |-> <<"Orvieto", "Lucca", "Matera", "Siena">>],
     [country |-> "Montenegro",
      cities |-> <<"Kotor", "Budva", "Herceg Novi", "Cetinje">>] >>

priorityCountries ==
  SubSeq(priorityCountriesAll, 1, Min(NumCountries, Len(priorityCountriesAll)))

backupCities ==
  [i \in 1..Min(NumCountries, Len(backupCitiesAll)) |->
     [country |-> backupCitiesAll[i].country,
      cities |-> SubSeq(backupCitiesAll[i].cities, 1,
                        Min(CitiesPerCountry, Len(backupCitiesAll[i].cities)))]]

Range(s) == {s[i] : i \in 1..Len(s)}

(***************************************************************************)
(* The text-generation provider.  A response is what generateText did:     *)
(* it threw, or it returned a text.  The text is described by what         *)
(* JSON.parse makes of it: a JSON array, prose wrapped around a JSON array,*)
(* a JSON value that is no array, or text holding no JSON at all.  An      *)
(* array element is a city object, an object without a name, or null.      *)
(***************************************************************************)
CityElem(n, c) == [kind |-> "city", name |-> n, country |-> c]
NoNameElem == [kind |-> "noname", name |-> "", country |-> ""]
NullElem == [kind |-> "null", name |-> "", country |-> ""]

Elems ==
  { CityElem("Sopron", ""), CityElem("Sopron", "Republic of Serbia"),
    NoNameElem, NullElem }

Arrays == UNION {[1..n -> Elems] : n \in 0..MaxCands}

Responses ==
  { [kind |-> "throw", items |-> <<>>],
    [kind |-> "garbage", items |-> <<>>],
    [kind |-> "json_object", items |-> <<>>] }
  \cup {[kind |-> "json_array", items |-> a] : a \in Arrays}
  \cup {[kind |-> "wrapped_array", items |-> a] : a \in [1..1 -> Elems]}

\* What the LLM may answer when asked for a country (free text).
CountryAnswers == Range(priorityCountries) \cup {"SERBIA"}

(***************************************************************************)
(* safeJsonParse: strict parse, then the first bracket-delimited           *)
(* substring, else [].  The result is the parsed value.                    *)
(***************************************************************************)
safeJsonParse(response) ==
  CASE response.kind = "json_array" ->
         [isArray |-> TRUE, items |-> response.items]
    [] response.kind = "json_object" ->
         [isArray |-> FALSE, items |-> <<>>]
    [] response.kind = "wrapped_array" ->
         [isArray |-> TRUE, items |-> response.items]
    [] OTHER ->
         [isArray |-> TRUE, items |-> <<>>]

generatePotentialCities(response) ==
  IF response.kind = "throw"
  THEN <<>>
  ELSE LET citiesData == safeJsonParse(response)
       IN IF citiesData.isArray THEN citiesData.items ELSE <<>>

(***************************************************************************)
(* getVisitedCities: lowercased (name, country) of every visited or        *)
(* current location.                                                       *)
(***************************************************************************)
getVisitedCities(locs) ==
  { [name |-> toLowerCase(locs[i].name),
     country |-> toLowerCase(locs[i].country)] :
      i \in {j \in 1..Len(locs) : locs[j].is_visited \/ locs[j].is_current} }

(***************************************************************************)
(* determineNextCountry: the set of countries it can return.               *)
(***************************************************************************)
determineNextCountry(currentCountry) ==
  IF currentCountry = ""
  THEN {"Serbia"}
  ELSE CountryAnswers
       \cup {c \in Range(priorityCountries) : c # currentCountry}

(***************************************************************************)
(* getBackupCity: the set of descriptors it can return.                    *)
(***************************************************************************)
Descriptor(n, c) == [status |-> "ok", name |-> n, country |-> c]
Raised == [status |-> "raised", name |-> "", country |-> ""]
\* No call: with the record of the generation calls a call would have made.
NoPlan == [status |-> "none", name |-> "", country |-> "",
           requested |-> "", firstUnparseable |-> FALSE, generations |-> 0]
NoCandidates == [attraction |-> {}, restaurant |-> {}]
NoPlaces == [called |-> FALSE, location_id |-> NULL,
             attraction |-> NULL, restaurant |-> NULL, exhausted |-> {},
             candidates |-> NoCandidates]

NotVisited(cityName, cityCountry, visitedCities) ==
  ~ \E visited \in visitedCities :
       /\ visited.name = toLowerCase(cityName)
       /\ visited.country = toLowerCase(cityCountry)

IsBackupKey(country) ==
  \E i \in 1..Len(backupCities) : backupCities[i].country = country

BackupEntry(country) ==
  IF IsBackupKey(country)
  THEN backupCities[CHOOSE i \in 1..Len(backupCities) :
                      backupCities[i].country = country]
  ELSE backupCities[1]

AvailableIn(entry, asCountry, visitedCities) ==
  SelectSeq(entry.cities, LAMBDA city : NotVisited(city, asCountry, visitedCities))

\* getBackupCity returning the other country's city under the requested
\* country's name.
getBackupCityKeepingCountry(country, visitedCities) ==
  LET citiesForCountry == BackupEntry(country).cities
      availableCities ==
        SelectSeq(citiesForCountry,
                  LAMBDA city : NotVisited(city, country, visitedCities))
      others == {i \in 1..Len(backupCities) :
                   /\ backupCities[i].country # country
                   /\ Len(AvailableIn(backupCities[i], backupCities[i].country,
                                      visitedCities)) > 0}
  IN IF Len(availableCities) = 0
     THEN IF others # {}
          THEN LET i == CHOOSE k \in others : \A m \in others : k <= m
               IN {Descriptor(c, country) :
                     c \in Range(AvailableIn(backupCities[i],
                                             backupCities[i].country,
                                             visitedCities))}
          ELSE {Descriptor(Outskirts(citiesForCountry[1]), country)}
     ELSE {Descriptor(c, country) : c \in Range(availableCities)}

getBackupCity(country, visitedCities) ==
  LET citiesForCountry == BackupEntry(country).cities
      availableCities ==
        SelectSeq(citiesForCountry,
                  LAMBDA city : NotVisited(city, country, visitedCities))
      others == {i \in 1..Len(backupCities) :
                   /\ backupCities[i].country # country
                   /\ Len(AvailableIn(backupCities[i], backupCities[i].country,
                                      visitedCities)) > 0}
  IN IF Len(availableCities) = 0
     THEN IF others # {}
          THEN LET i == CHOOSE k \in others : \A m \in others : k <= m
               IN {Descriptor(c, backupCities[i].country) :
                     c \in Range(AvailableIn(backupCities[i],
                                             backupCities[i].country,
                                             visitedCities))}
          ELSE {Descriptor(Outskirts(citiesForCountry[1]), country)}
     ELSE {Descriptor(c, country) : c \in Range(availableCities)}

(***************************************************************************)
(* selectNextCity.  The visited-filter reads city.name.toLowerCase() of    *)
(* every element, so one element without a name makes the filter throw.    *)
(* The filter compares with (city.country || nextCountry); the descriptor  *)
(* carries nextCountry.                                                    *)
(***************************************************************************)
FilterThrows(cities) ==
  \E i \in 1..Len(cities) : cities[i].kind # "city"

FilterVisited(cities, nextCountry, visitedCities) ==
  SelectSeq(cities,
            LAMBDA city :
              NotVisited(city.name,
                         IF city.country # "" THEN city.country ELSE nextCountry,
                         visitedCities))

\* The tail of selectNextCity: backup on an empty list, else a random pick.
PickCity(potentialCities, nextCountry, visitedCities) ==
  IF Len(potentialCities) = 0
  THEN getBackupCity(nextCountry, visitedCities)
  ELSE { IF potentialCities[i].kind = "null"
         THEN Raised
         ELSE Descriptor(IF potentialCities[i].name # ""
                         THEN potentialCities[i].name ELSE "Unknown Town",
                         nextCountry) :
           i \in 1..Len(potentialCities) }

\* TRUE when the first candidate list is non-empty and wholly visited, the
\* case in which the second generation call is made.
NeedsRetry(nextCountry, first, visitedCities) ==
  LET potentialCities == generatePotentialCities(first)
  IN /\ Len(potentialCities) > 0
     /\ visitedCities # {}
     /\ ~FilterThrows(potentialCities)
     /\ Len(FilterVisited(potentialCities, nextCountry, visitedCities)) = 0

selectNextCityWith(nextCountry, first, retry, visitedCities) ==
  LET potentialCities == generatePotentialCities(first)
  IN IF Len(potentialCities) > 0 /\ visitedCities # {}
     THEN IF FilterThrows(potentialCities)
          THEN {Raised}
          ELSE LET filteredCities ==
                     FilterVisited(potentialCities, nextCountry, visitedCities)
               IN IF Len(filteredCities) > 0
                  THEN PickCity(filteredCities, nextCountry, visitedCities)
                  ELSE LET moreCities == generatePotentialCities(retry)
                       IN IF Len(moreCities) > 0
                          THEN IF FilterThrows(moreCities)
                               THEN {Raised}
                               ELSE LET newFilteredCities ==
                                          FilterVisited(moreCities, nextCountry,
                                                        visitedCities)
                                    IN IF Len(newFilteredCities) > 0
                                       THEN PickCity(newFilteredCities,
                                                     nextCountry, visitedCities)
                                       ELSE PickCity(potentialCities,
                                                     nextCountry, visitedCities)
                          ELSE PickCity(potentialCities, nextCountry,
                                        visitedCities)
     ELSE PickCity(potentialCities, nextCountry, visitedCities)

\* An outcome with the calls that led to it: the country determineNextCountry
\* gave, whether the text of the first generation call held no JSON, and how
\* many generation calls were made.
Attempts(outcomes, nextCountry, first, generations) ==
  { [status |-> o.status, name |-> o.name, country |-> o.country,
     requested |-> nextCountry,
     firstUnparseable |-> first.kind = "garbage",
     generations |-> generations] : o \in outcomes }

\* Every outcome selectNextCity(currentCountry) can have on this database.
selectNextCity(currentCountry, locs) ==
  LET visitedCities == getVisitedCities(locs)
  IN UNION { UNION { IF NeedsRetry(nextCountry, first, visitedCities)
                     THEN Attempts(
                            UNION { selectNextCityWith(nextCountry, first,
                                                       retry, visitedCities) :
                                    retry \in Responses },
                            nextCountry, first, 2)
                     ELSE Attempts(
                            selectNextCityWith(nextCountry, first, first,
                                               visitedCities),
                            nextCountry, first, 1) :
                       first \in Responses } :
             nextCountry \in determineNextCountry(currentCountry) }

(***************************************************************************)
(* The repository.                                                         *)
(***************************************************************************)
\* A write succeeds or throws; a run has at most MaxWriteFaults throws.
WriteOutcomes == {TRUE, FALSE}

Cost(ok) == IF ok THEN 0 ELSE 1

Affordable(faults) == writeFaults + faults <= MaxWriteFaults

\* SELECT * FROM locations WHERE is_current = 1 (db.get: the first row)
CurrentIds(locs) == {i \in 1..Len(locs) : locs[i].is_current}

HasCurrent(locs) == CurrentIds(locs) # {}

CurrentId(locs) ==
  CHOOSE i \in CurrentIds(locs) : \A j \in CurrentIds(locs) : i <= j

VisitsOf(vs, p) == {k \in 1..Len(vs) : vs[k].poi_id = p}

\* parseInt(process.env.X) || dflt : unset, unparsable and 0 give dflt
parseIntOr(env, dflt) == IF env = Unset \/ env = 0 THEN dflt ELSE env

(***************************************************************************)
(* checkLocationStatus (app.js)                                            *)
(***************************************************************************)
UnvisitedAttractionCount(locId) ==
  Cardinality({p \in 1..Len(pois) :
                 /\ pois[p].location_id = locId
                 /\ pois[p].type = "attraction"
                 /\ VisitsOf(visits, p) = {}})

\* The three conditions of checkLocationStatus on the row it read.
shouldMove(currentLocation, noMoreAttractions) ==
  LET minDays == parseIntOr(minDaysEnv, DefaultMinDays)
      maxDays == parseIntOr(maxDaysEnv, DefaultMaxDays)
      reachedMinDuration ==
        currentLocation.current_day >= currentLocation.planned_duration
      reachedMaxDuration == currentLocation.current_day >= maxDays
      noContentAndMinTime ==
        noMoreAttractions /\ currentLocation.current_day >= minDays
  IN reachedMinDuration \/ reachedMaxDuration \/ noContentAndMinTime

checkLocationStatus ==
  IF ~HasCurrent(locations)
  THEN FALSE
  ELSE shouldMove(locations[CurrentId(locations)],
                  UnvisitedAttractionCount(CurrentId(locations)) = 0)

(***************************************************************************)
(* initializeDynamicJourney (initJourneyDynamic.js)                        *)
(***************************************************************************)
\* The insert with is_visited set on the new row.
NewLocationVisited(city, current, duration, order) ==
  [name |-> city.name, country |-> city.country,
   is_current |-> current, is_visited |-> TRUE,
   planned_duration |-> duration, current_day |-> 1,
   order_in_journey |-> order]

NewLocation(city, current, duration, order) ==
  [name |-> city.name, country |-> city.country,
   is_current |-> current, is_visited |-> FALSE,
   planned_duration |-> duration, current_day |-> 1,
   order_in_journey |-> order]

\* The locations table without the UNIQUE constraint.
OrderTakenNoConstraint(locs, order) == FALSE

\* order_in_journey INTEGER UNIQUE: the insert of a taken order throws
OrderTaken(locs, order) ==
  \E i \in 1..Len(locs) : locs[i].order_in_journey = order

initializeDynamicJourney ==
  /\ Len(locations) = 0
  /\ \E firstCity \in selectNextCity("", locations), ok \in WriteOutcomes :
       /\ Affordable(IF firstCity.status = "ok" THEN Cost(ok) ELSE 0)
       /\ writeFaults' = writeFaults
                          + (IF firstCity.status = "ok" THEN Cost(ok) ELSE 0)
       /\ lastPlan' = firstCity
       /\ locations' =
            IF firstCity.status = "ok" /\ ok
            THEN Append(locations,
                        NewLocation(firstCity, TRUE, FirstPlannedDuration, 1))
            ELSE locations
  /\ lastPlaces' = NoPlaces
  /\ UNCHANGED <<transportation, pois, visits, lastCycle, cycles,
                 minDaysEnv, maxDaysEnv>>
  /\ UNCHANGED <<imageVars, rateVars>>

(***************************************************************************)
(* moveToNextLocation (move_to_next_location.js).  Four statements, no     *)
(* transaction: failAt names the statement that throws (0: none).  The     *)
(* result is the tables afterwards and the return value.                   *)
(***************************************************************************)
FailPoints == 0..4

\* determineTransportType with the thresholds themselves counted upwards.
determineTransportTypeInclusive(distance) ==
  IF distance >= AirplaneAbove THEN "airplane"
  ELSE IF distance >= TrainAbove THEN "train"
  ELSE "bus"

determineTransportType(distance) ==
  IF distance > AirplaneAbove THEN "airplane"
  ELSE IF distance > TrainAbove THEN "train"
  ELSE "bus"

\* calculateDistance: the distances drawn are the two thresholds and the
\* first distance flown.
Distances == {TrainAbove, AirplaneAbove, AirplaneAbove + 1}

\* 10 + Math.floor(Math.random() * 5), the draw bounded by MaxDurationDraw
PlannedDurations ==
  {MinPlannedDuration + d :
     d \in 0..Min(MaxDurationDraw, PlannedDurationSpread - 1)}

\* The UPDATE of the old row without its is_current column.
SetFlagsVisitedOnly(locs, id, current, visited) ==
  [locs EXCEPT ![id].is_visited = visited]

SetFlags(locs, id, current, visited) ==
  [locs EXCEPT ![id].is_current = current, ![id].is_visited = visited]

moveToNextLocation(nextCity, distanceKm, plannedDuration, failAt) ==
  LET curId == CurrentId(locations)
      orderInJourney == locations[curId].order_in_journey + 1
      inserted ==
        Append(locations,
               NewLocation(nextCity, FALSE, plannedDuration, orderInJourney))
      newLocationId == Len(inserted)
      leg == [from_location_id |-> curId, to_location_id |-> newLocationId,
              type |-> determineTransportType(distanceKm),
              distance_km |-> distanceKm]
      cleared == SetFlags(inserted, curId, FALSE, TRUE)
      arrived == [cleared EXCEPT ![newLocationId].is_current = TRUE,
                                 ![newLocationId].current_day = 1]
  IN IF nextCity.status = "raised"
        \/ failAt = 1 \/ OrderTaken(locations, orderInJourney)
     THEN [locs |-> locations, legs |-> transportation, moved |-> FALSE]
     ELSE IF failAt = 2
     THEN [locs |-> inserted, legs |-> transportation, moved |-> FALSE]
     ELSE IF failAt = 3
     THEN [locs |-> inserted, legs |-> Append(transportation, leg),
           moved |-> FALSE]
     ELSE IF failAt = 4
     THEN [locs |-> cleared, legs |-> Append(transportation, leg),
           moved |-> FALSE]
     ELSE [locs |-> arrived, legs |-> Append(transportation, leg),
           moved |-> TRUE]

(***************************************************************************)
(* createTravelPost (travel-post-generator.js): TRUE when it gets as far   *)
(* as the publication call on these tables.                                *)
(***************************************************************************)
EarlierIds(locs, order) ==
  {i \in 1..Len(locs) : locs[i].order_in_journey < order}

PreviousId(locs, order) ==
  CHOOSE i \in EarlierIds(locs, order) :
    \A j \in EarlierIds(locs, order) :
      locs[j].order_in_journey <= locs[i].order_in_journey

HasLeg(legs, from, to) ==
  \E k \in 1..Len(legs) :
    legs[k].from_location_id = from /\ legs[k].to_location_id = to

createTravelPostReady(locs, legs) ==
  /\ HasCurrent(locs)
  /\ EarlierIds(locs, locs[CurrentId(locs)].order_in_journey) # {}
  /\ HasLeg(legs,
            PreviousId(locs, locs[CurrentId(locs)].order_in_journey),
            CurrentId(locs))

(***************************************************************************)
(* selectPlacesToVisit (TravelPlannerService.js).                          *)
(* A generation response is modelled like a city response; its elements    *)
(* are place objects (with the weekend hours the LLM gave, "" when absent) *)
(* or null.  The elements of one response share their hours.               *)
(***************************************************************************)
PlaceElem(h) == [kind |-> "place", weekend |-> h]
NullPlace == [kind |-> "null", weekend |-> ""]

PlaceArray(n, bad, h) ==
  [i \in 1..n |-> IF i <= n - bad THEN PlaceElem(h) ELSE NullPlace]

\* The weekendHours the LLM gives its places: closed at weekends, so that
\* with the weekday/weekend draw of the date both branches of the
\* opening-hours filter are taken.
HoursAnswers == {"Closed"}

PlaceArrays ==
  {PlaceArray(n, Min(bad, n), h) :
     n \in 0..MaxGen, bad \in 0..MaxGen, h \in HoursAnswers}

PlaceResponses ==
  { [kind |-> "throw", items |-> <<>>],
    [kind |-> "garbage", items |-> <<>>],
    [kind |-> "json_object", items |-> <<>>] }
  \cup {[kind |-> "json_array", items |-> a] : a \in PlaceArrays}

\* generateAttractions / generateRestaurants
generatePlaces(response) ==
  IF response.kind = "throw"
  THEN <<>>
  ELSE LET data == safeJsonParse(response)
       IN IF data.isArray THEN data.items ELSE <<>>

DefaultWeekend(type) == IF type = "attraction" THEN "10:00-16:00" ELSE "12:00-23:00"

PoiRow(locId, type, weekend, isDefault) ==
  [location_id |-> locId, type |-> type, weekend |-> weekend,
   is_default |-> isDefault]

\* The row ids of a table, in rowid order.
RowIds(ps) == [i \in 1..Len(ps) |-> i]

\* The query without its join on visits.
UnconsumedIgnoringVisits(ps, vs, locId, type) ==
  SelectSeq(RowIds(ps), LAMBDA p : ps[p].location_id = locId /\ ps[p].type = type)

\* LEFT JOIN visits ... WHERE v.id IS NULL OR v.included_in_post = 0
Unconsumed(ps, vs, locId, type) ==
  SelectSeq(RowIds(ps), LAMBDA p :
        /\ ps[p].location_id = locId
        /\ ps[p].type = type
        /\ \/ VisitsOf(vs, p) = {}
           \/ \E k \in VisitsOf(vs, p) : ~vs[k].included_in_post)

\* SELECT * FROM points_of_interest WHERE location_id = ? AND type = ?
AllOfType(ps, locId, type) ==
  SelectSeq(RowIds(ps), LAMBDA p : ps[p].location_id = locId /\ ps[p].type = type)

ValidPlaces(items) == SelectSeq(items, LAMBDA e : e.kind = "place")

InsertCounts(items) == 0..Len(ValidPlaces(items))

\* The inserts of the generated places that threw (each is caught).
FailedInserts(list, newPlaces, saved) ==
  IF Len(list) = 0 THEN Len(ValidPlaces(newPlaces)) - saved ELSE 0

\* The lazy-generation step for one type: the rows saved and the list
\* the routine goes on with.
GenerateAndSave(ps, locId, type, list, newPlaces, saved) ==
  IF Len(list) = 0
  THEN LET valid == ValidPlaces(newPlaces)
       IN IF Len(newPlaces) > 0
          THEN LET ps1 ==
                     ps \o [i \in 1..saved |->
                              PoiRow(locId, type,
                                     IF valid[i].weekend # ""
                                     THEN valid[i].weekend
                                     ELSE DefaultWeekend(type),
                                     FALSE)]
               IN [pois |-> ps1, list |-> AllOfType(ps1, locId, type)]
          ELSE [pois |-> ps, list |-> list]
  ELSE [pois |-> ps, list |-> list]

\* The default POI of a type, created when the list is still empty.
DefaultRow(locId, type) ==
  PoiRow(locId, type,
         IF type = "attraction" THEN "00:00-23:59" ELSE "12:00-23:00", TRUE)

IsOpen(ps, p, isWeekend) ==
  LET hoursToCheck == IF isWeekend THEN ps[p].weekend ELSE "9:00-17:00"
  IN hoursToCheck # "Closed"

\* The pick without the fallback to the first row of the list.
SelectedOpenOnly(ps, list, isWeekend) ==
  LET open == SelectSeq(list, LAMBDA p : IsOpen(ps, p, isWeekend))
  IN IF Len(open) > 0 THEN Range(open) ELSE {NULL}

Selected(ps, list, isWeekend) ==
  LET open == SelectSeq(list, LAMBDA p : IsOpen(ps, p, isWeekend))
  IN IF Len(open) > 0 THEN Range(open)
     ELSE IF Len(list) > 0 THEN {list[1]} ELSE {NULL}

\* The lists generateAttractions / generateRestaurants can return.
GeneratedLists == {generatePlaces(response) : response \in PlaceResponses}

\* The generation is called only for an empty list.
ListsFor(list) == IF Len(list) = 0 THEN GeneratedLists ELSE {<<>>}

SavedFor(list, newPlaces) ==
  IF Len(list) = 0 THEN InsertCounts(newPlaces) ELSE {0}

\* The insert of a default POI is made only for a list that is still empty.
DefaultOutcomes(list) == IF Len(list) = 0 THEN WriteOutcomes ELSE {TRUE}

\* The default POIs, the opening-hours filter, the pick.  A failed insert
\* of a default throws into the outer catch: null, null.  candidates: the
\* lists the filter and the pick work on.
FinishSelection(ps, locationId, attractions1, restaurants1, okA, okR) ==
  LET needA == Len(attractions1) = 0
      needR == Len(restaurants1) = 0
      ps2 == IF needA /\ okA
             THEN Append(ps, DefaultRow(locationId, "attraction")) ELSE ps
      attractions == IF needA THEN <<Len(ps2)>> ELSE attractions1
      ps3 == IF needR /\ okR
             THEN Append(ps2, DefaultRow(locationId, "restaurant")) ELSE ps2
      restaurants == IF needR THEN <<Len(ps3)>> ELSE restaurants1
  IN IF needA /\ ~okA
     THEN {[pois |-> ps, attraction |-> NULL, restaurant |-> NULL, faults |-> 1,
            candidates |-> [attraction |-> {},
                            restaurant |-> Range(restaurants1)]]}
     ELSE IF needR /\ ~okR
     THEN {[pois |-> ps2, attraction |-> NULL, restaurant |-> NULL,
            faults |-> 1,
            candidates |-> [attraction |-> Range(attractions),
                            restaurant |-> {}]]}
     ELSE UNION { {[pois |-> ps3, attraction |-> a, restaurant |-> r,
                    faults |-> 0,
                    candidates |-> [attraction |-> Range(attractions),
                                    restaurant |-> Range(restaurants)]] :
                     a \in Selected(ps3, attractions, isWeekend),
                     r \in Selected(ps3, restaurants, isWeekend)} :
                  isWeekend \in BOOLEAN }

AddFaults(outcomes, n) ==
  {[o EXCEPT !.faults = @ + n] : o \in outcomes}

\* Every outcome of selectPlacesToVisit(locationId, date) on this database:
\* the POI table afterwards, the pair returned (NULL for null) and the
\* number of writes that threw.
selectPlacesToVisit(locationId) ==
  LET attractions0 == Unconsumed(pois, visits, locationId, "attraction")
      restaurants0 == Unconsumed(pois, visits, locationId, "restaurant")
      AfterRestaurants(a1, newR, savedR) ==
        LET r1 == GenerateAndSave(a1.pois, locationId, "restaurant",
                                  restaurants0, newR, savedR)
        IN AddFaults(
             UNION { FinishSelection(r1.pois, locationId, a1.list, r1.list,
                                     okA, okR) :
                     okA \in DefaultOutcomes(a1.list),
                     okR \in DefaultOutcomes(r1.list) },
             FailedInserts(restaurants0, newR, savedR))
      AfterAttractions(newA, savedA) ==
        LET a1 == GenerateAndSave(pois, locationId, "attraction",
                                  attractions0, newA, savedA)
        IN AddFaults(
             UNION { UNION { AfterRestaurants(a1, newR, savedR) :
                             savedR \in SavedFor(restaurants0, newR) } :
                     newR \in ListsFor(restaurants0) },
             FailedInserts(attractions0, newA, savedA))
  IN UNION { UNION { AfterAttractions(newA, savedA) :
                     savedA \in SavedFor(attractions0, newA) } :
             newA \in ListsFor(attractions0) }

\* The types whose unconsumed list is empty when the routine is entered.
Exhausted(locationId) ==
  {type \in {"attraction", "restaurant"} :
     Len(Unconsumed(pois, visits, locationId, type)) = 0}

(***************************************************************************)
(* PostGeneratorService: the write-back after the CMS published the post.  *)
(***************************************************************************)
VisitRow(p) == [poi_id |-> p, included_in_post |-> TRUE]

\* savePostInfoToDatabase: posts insert (1), post_images inserts (2),
\* the restaurant's visit (3), the attraction's visit (4); the first
\* statement that throws ends the routine (it returns false).
savePostInfoToDatabase(vs, restaurant, attraction, failAt) ==
  IF failAt \in {1, 2, 3}
  THEN vs
  ELSE IF failAt = 4
  THEN Append(vs, VisitRow(restaurant))
  ELSE Append(Append(vs, VisitRow(restaurant)), VisitRow(attraction))

\* The UPDATE run twice.
updateLocationStatusTwice(locs, id, ok) ==
  IF ok THEN [locs EXCEPT ![id].current_day = @ + 2] ELSE locs

\* updateLocationStatus: UPDATE locations SET current_day = current_day + 1
updateLocationStatus(locs, id, ok) ==
  IF ok THEN [locs EXCEPT ![id].current_day = @ + 1] ELSE locs

Tick(branch, daily, travel) ==
  [branch |-> branch, daily |-> daily, travel |-> travel]

\* generateDailyPost without the return in its shouldTravel branch: the
\* daily post follows the travel post.
TravelTickFallingThrough(moved, ready, published) ==
  Tick("travel", 1, IF moved /\ ready /\ published THEN 1 ELSE 0)

\* What a shouldTravel tick publishes: the travel post, when the move was
\* made and createTravelPost got through.
TravelTick(moved, ready, published) ==
  Tick("travel", 0, IF moved /\ ready /\ published THEN 1 ELSE 0)

(***************************************************************************)
(* generateDailyPost (app.js): one cron tick.                              *)
(***************************************************************************)
\* Every outcome of one moveToNextLocation call that got nextCity from the
\* planner: the tables afterwards, the return value, the writes that threw.
MoveOutcomes(nextCity) ==
  { [m |-> moveToNextLocation(nextCity, distanceKm, plannedDuration, failAt),
     thrown |-> IF nextCity.status = "ok" /\ failAt # 0 THEN 1 ELSE 0] :
      distanceKm \in Distances,
      plannedDuration \in PlannedDurations,
      failAt \in FailPoints }

\* shouldTravel: handleAutomaticTravel = moveToNextLocation, createTravelPost
TravelCycle ==
  /\ cycles < MaxCycles
  /\ checkLocationStatus
  /\ Len(locations) < MaxLocations
  /\ cycles' = cycles + 1
  /\ \E nextCity \in selectNextCity(locations[CurrentId(locations)].country,
                                    locations) :
       \E o \in MoveOutcomes(nextCity) :
         /\ Affordable(o.thrown)
         /\ writeFaults' = writeFaults + o.thrown
         /\ lastPlan' = nextCity
         /\ locations' = o.m.locs
         /\ transportation' = o.m.legs
         /\ lastCycle' \in
              { TravelTick(o.m.moved,
                           createTravelPostReady(o.m.locs, o.m.legs),
                           published) : published \in BOOLEAN }
  /\ lastPlaces' = NoPlaces
  /\ UNCHANGED <<pois, visits, minDaysEnv, maxDaysEnv>>
  /\ UNCHANGED <<imageVars, rateVars>>

\* The query without its WHERE clause: the first row of the table.
getCurrentLocationAnyRow(locs) ==
  IF HasCurrent(locs) THEN CurrentId(locs)
  ELSE IF Len(locs) > 0 THEN 1 ELSE NULL

\* PostGeneratorService.getCurrentLocation: the row id, NULL for no row
getCurrentLocation(locs) ==
  IF HasCurrent(locs) THEN CurrentId(locs) ELSE NULL

\* not shouldTravel: WordPressService.initialize, generateAndPublishPost
\* Every outcome of the write-back after a publication: the two tables
\* afterwards and the writes that threw.
WriteBacks(places) ==
  { [visits |-> savePostInfoToDatabase(visits, places.restaurant,
                                       places.attraction, failAt),
     locs |-> updateLocationStatus(locations, getCurrentLocation(locations),
                                   ok),
     thrown |-> places.faults + Cost(failAt = 0) + Cost(ok)] :
      failAt \in FailPoints, ok \in WriteOutcomes }

StayCycle ==
  /\ cycles < MaxCycles
  /\ ~checkLocationStatus
  /\ cycles' = cycles + 1
  /\ \/ \* the CMS client or getCurrentLocation fails: no place is selected
        /\ lastPlaces' = NoPlaces
        /\ lastCycle' = Tick("stay", 0, 0)
        /\ UNCHANGED <<locations, pois, visits, writeFaults>>
     \/ /\ getCurrentLocation(locations) # NULL
        /\ \E places \in selectPlacesToVisit(getCurrentLocation(locations)) :
             /\ Affordable(places.faults)
             /\ pois' = places.pois
             /\ lastPlaces' = [called |-> TRUE,
                               location_id |-> getCurrentLocation(locations),
                               attraction |-> places.attraction,
                               restaurant |-> places.restaurant,
                               exhausted |->
                                 Exhausted(getCurrentLocation(locations)),
                               candidates |-> places.candidates]
             /\ \/ \* preparePostData, the text generation or the CMS fails
                   /\ lastCycle' = Tick("stay", 0, 0)
                   /\ writeFaults' = writeFaults + places.faults
                   /\ UNCHANGED <<locations, visits>>
                \/ \* the CMS published the post
                   /\ places.attraction # NULL
                   /\ places.restaurant # NULL
                   /\ lastCycle' = Tick("stay", 1, 0)
                   /\ \E w \in WriteBacks(places) :
                        /\ Affordable(w.thrown)
                        /\ writeFaults' = writeFaults + w.thrown
                        /\ visits' = w.visits
                        /\ locations' = w.locs
  /\ lastPlan' = NoPlan
  /\ UNCHANGED <<transportation, minDaysEnv, maxDaysEnv>>
  /\ UNCHANGED <<imageVars, rateVars>>

(***************************************************************************)
(* UnsplashService: searchImage and the used_images ledger.  Each call of  *)
(* searchImage, the recursive ones included, is one step: it passes the    *)
(* rate limiter and sends one request to the provider.                     *)
(***************************************************************************)
Images == 1..NumImages

\* The pages searchImage walks before it modifies the query.
LastPage == 5

\* checkRateLimit's threshold.
RateLimit == 45

NoSearch == [status |-> "idle", page |-> 0, modified |-> FALSE, result |-> NULL]

Searching(page, modified) ==
  [status |-> "running", page |-> page, modified |-> modified, result |-> NULL]

\* What searchImage returns: an image id, or NULL.
Returned(result) ==
  [status |-> "done", page |-> 0, modified |-> FALSE, result |-> result]

\* checkRateLimit: the counter after the call.  `elapsed`: the reset time
\* has passed.  At the threshold the call waits for the reset time and
\* resolves; it neither counts nor rejects.
checkRateLimit(count, elapsed) ==
  LET c == IF elapsed THEN 0 ELSE count
  IN IF c >= RateLimit THEN c ELSE c + 1

\* axios.get: it throws, or answers with the ids of response.data.results.
SearchResponses ==
  {[kind |-> "error", results |-> {}]}
    \cup {[kind |-> "ok", results |-> r] : r \in SUBSET Images}

isImageUsed(ledger, imageId) == imageId \in ledger

markImageAsUsed(ledger, imageId) == ledger \cup {imageId}

\* One call of searchImage on `page`: the call's outcome and the ledger.
searchImage(s, ledger, response) ==
  LET unusedImages == {i \in response.results : ~isImageUsed(ledger, i)}
  IN IF response.kind = "error" \/ response.results = {}
     THEN {[search |-> Returned(NULL), used_images |-> ledger]}
     ELSE IF unusedImages # {}
     THEN {[search |-> Returned(image),
            used_images |-> markImageAsUsed(ledger, image)] :
             image \in unusedImages}
     ELSE IF s.page < LastPage
     THEN {[search |-> Searching(s.page + 1, s.modified),
            used_images |-> ledger]}
     ELSE {[search |-> Searching(1, TRUE), used_images |-> ledger]}

(***************************************************************************)
(* ImageService.searchImage with Unsplash as the primary provider: it      *)
(* awaits the primary inside try and calls the fallback inside catch.      *)
(***************************************************************************)
\* The cycles that may overlap, and a cycle that has not reached
\* moveToNextLocation.
Cycles == 1..NumOverlappingCycles

NotStarted == [pc |-> "idle", currentLocation |-> NULL, newLocationId |-> NULL,
               name |-> "", country |-> "", distanceKm |-> 0]

\* FreepikService.generateImage not called yet.
NoImage == [status |-> "none", prompt |-> [text |-> 0, varied |-> 0]]

NoRequest == [status |-> "none", result |-> NULL, fallback |-> FALSE]

Pending == [status |-> "pending", result |-> NULL, fallback |-> FALSE]

\* How a finished UnsplashService.searchImage call ends for its caller: its
\* own try/catch turns every error into the return value null.
PrimaryOutcome(s) == [threw |-> FALSE, result |-> s.result]

\* What the fallback (FreepikService.generateImage) returns when called.
FallbackResults == Images \cup {NULL}

ImageService_searchImage(primary, fallbackResult) ==
  IF primary.threw
  THEN [status |-> "returned", result |-> fallbackResult, fallback |-> TRUE]
  ELSE [status |-> "returned", result |-> primary.result, fallback |-> FALSE]

\* ImageService.searchImage is called without a page: the primary's
\* searchImage draws one.
searchImageCall ==
  /\ search.status # "running"
  /\ imageRequest.status # "pending"
  /\ \E page \in 1..LastPage : search' = Searching(page, FALSE)
  /\ imageRequest' = Pending
  /\ UNCHANGED <<used_images, requestCount>>
  /\ UNCHANGED <<journeyVars, rateVars, freepikVars>>

\* The primary's call has ended: ImageService.searchImage returns.
searchImageReturn ==
  /\ search.status = "done"
  /\ imageRequest.status = "pending"
  /\ \E fallbackResult \in FallbackResults :
       imageRequest' =
         ImageService_searchImage(PrimaryOutcome(search), fallbackResult)
  /\ UNCHANGED <<used_images, requestCount, search>>
  /\ UNCHANGED <<journeyVars, rateVars, freepikVars>>

\* The body of the call in progress.
searchImageRequest ==
  /\ search.status = "running"
  /\ \E elapsed \in BOOLEAN :
       requestCount' = checkRateLimit(requestCount, elapsed)
  /\ \E response \in SearchResponses :
       \E o \in searchImage(search, used_images, response) :
         /\ search' = o.search
         /\ used_images' = o.used_images
  /\ UNCHANGED imageRequest
  /\ UNCHANGED <<journeyVars, rateVars, freepikVars>>

(***************************************************************************)
(* The specification.  Init: the tables as database/init.js creates them,  *)
(* the environment as the operator configured it.                          *)
(***************************************************************************)
\* <<MIN_DAYS_PER_LOCATION, MAX_DAYS_PER_LOCATION>>
EnvConfigs == {<<Unset, Unset>>, <<0, 2>>, <<1, Unset>>}

Init ==
  /\ locations = <<>>
  /\ transportation = <<>>
  /\ pois = <<>>
  /\ visits = <<>>
  /\ lastCycle = Tick("none", 0, 0)
  /\ cycles = 0
  /\ \E env \in EnvConfigs : minDaysEnv = env[1] /\ maxDaysEnv = env[2]
  /\ writeFaults = 0
  /\ lastPlan = NoPlan
  /\ lastPlaces = NoPlaces
  /\ used_images = {}
  /\ requestCount = 0
  /\ search = NoSearch
  /\ imageRequest = NoRequest
  /\ used_prompts = {}
  /\ freepikRequestCount = 0
  /\ generated = NoImage
  /\ now = 0
  /\ lastResetTime = 0
  /\ textRequestCount = 0
  /\ sent = <<>>
  /\ runs = [c \in Cycles |-> NotStarted]

Next == initializeDynamicJourney \/ TravelCycle \/ StayCycle

Spec == Init /\ [][Next]_vars

(***************************************************************************)
(* The day counter alone, over a whole stay.  The places of a stay bear on *)
(* current_day only through the count of unvisited attractions that        *)
(* checkLocationStatus reads and through whether the daily post came out:  *)
(* both are inputs here; pois, visits and the records of the planner's     *)
(* calls are left alone.                                                   *)
(***************************************************************************)
\* generateDailyPost when checkLocationStatus answered false: its queries
\* threw (readOk = FALSE: the catch returns false) or no condition held.
DayStay ==
  /\ HasCurrent(locations)
  /\ \E noMoreAttractions \in BOOLEAN, readOk \in WriteOutcomes,
        published \in BOOLEAN, ok \in WriteOutcomes :
       LET thrown == Cost(readOk) + (IF published THEN Cost(ok) ELSE 0)
       IN /\ Affordable(thrown)
          /\ ~(readOk /\ shouldMove(locations[CurrentId(locations)],
                                     noMoreAttractions))
          /\ writeFaults' = writeFaults + thrown
          /\ locations' =
               IF published
               THEN updateLocationStatus(locations,
                                         getCurrentLocation(locations), ok)
               ELSE locations
          /\ lastCycle' = Tick("stay", IF published THEN 1 ELSE 0, 0)
  /\ UNCHANGED <<transportation, pois, visits, cycles, minDaysEnv,
                 maxDaysEnv, lastPlan, lastPlaces>>
  /\ UNCHANGED <<imageVars, rateVars>>

\* generateDailyPost when checkLocationStatus answered true.
DayTravel ==
  /\ HasCurrent(locations)
  /\ Len(locations) < MaxDayLocations
  /\ \E noMoreAttractions \in BOOLEAN :
       shouldMove(locations[CurrentId(locations)], noMoreAttractions)
  /\ \E nextCity \in selectNextCity(locations[CurrentId(locations)].country,
                                     locations) :
       \E o \in MoveOutcomes(nextCity) :
         /\ Affordable(o.thrown)
         /\ writeFaults' = writeFaults + o.thrown
         /\ locations' = o.m.locs
         /\ transportation' = o.m.legs
         /\ lastCycle' \in
              { TravelTick(o.m.moved,
                           createTravelPostReady(o.m.locs, o.m.legs),
                           published) : published \in BOOLEAN }
  /\ UNCHANGED <<pois, visits, cycles, minDaysEnv, maxDaysEnv, lastPlan,
                 lastPlaces>>
  /\ UNCHANGED <<imageVars, rateVars>>

DayNext == initializeDynamicJourney \/ DayStay \/ DayTravel

DaySpec == Init /\ [][DayNext]_vars

\* The cron job keeps ticking: a cycle that can run does run.
DayLive == DaySpec /\ WF_vars(DayStay) /\ WF_vars(DayTravel)

(***************************************************************************)
(* OpenAIService: checkRateLimit and generateText with sequential callers. *)
(* Time is counted in seconds.                                             *)
(***************************************************************************)
\* The window of checkRateLimit (60000 ms) and the buffer it adds to a wait
\* (1000 ms).
WindowSeconds == 60

BufferSeconds == 1

\* parseInt(process.env.API_RATE_LIMIT_OPENAI) || 5, as configured.
rateLimitPerMinute == ConfiguredRateLimit

\* checkRateLimit at time t: the counter and the reset time it leaves, and
\* the time at which its promise resolves.  It never rejects.
checkTextRateLimit(t, count, resetTime) ==
  LET elapsed == t - resetTime
      count1 == IF elapsed > WindowSeconds THEN 0 ELSE count
      reset1 == IF elapsed > WindowSeconds THEN t ELSE resetTime
  IN IF count1 >= rateLimitPerMinute
     THEN [requestCount |-> count1, lastResetTime |-> reset1,
           resolved |-> t + (WindowSeconds - elapsed + BufferSeconds)]
     ELSE [requestCount |-> count1 + 1, lastResetTime |-> reset1,
           resolved |-> t]

\* The send times no more than a window before t (t included).
WithinWindow(times, t) ==
  SelectSeq(times, LAMBDA u : t - u < WindowSeconds)

\* generateText: checkRateLimit is awaited, then the request is posted.
generateText ==
  /\ checkTextRateLimit(now, textRequestCount, lastResetTime).resolved
       <= MaxTime
  /\ \E r \in {checkTextRateLimit(now, textRequestCount, lastResetTime)} :
       /\ now' = r.resolved
       /\ textRequestCount' = r.requestCount
       /\ lastResetTime' = r.lastResetTime
       /\ sent' = WithinWindow(Append(sent, r.resolved), r.resolved)
  /\ UNCHANGED runs
  /\ UNCHANGED <<journeyVars, imageVars>>

\* Time passes between two callers.
Delays == {20, 30}

Elapse ==
  /\ \E d \in Delays :
       /\ now + d <= MaxTime
       /\ now' = now + d
  /\ UNCHANGED <<lastResetTime, textRequestCount, sent, runs>>
  /\ UNCHANGED <<journeyVars, imageVars>>

RateNext == generateText \/ Elapse

RateSpec == Init /\ [][RateNext]_vars

(***************************************************************************)
(* FreepikService.generateImage.  A prompt is the text a caller built and  *)
(* the number of times the variation suffix was appended to it.  The       *)
(* statements on used_images succeed.                                      *)
(***************************************************************************)
\* checkRateLimit's threshold.
FreepikDailyLimit == 100

Prompts == {[text |-> t, varied |-> 0] : t \in 1..NumPrompts}

\* prompt += `, ${season} lighting, unique perspective`
Vary(prompt) == [prompt EXCEPT !.varied = @ + 1]

\* md5 of the prompt text: equal exactly for equal texts.
generatePromptHash(prompt) == [md5 |-> prompt]

isPromptUsed(ledger, promptHash) == promptHash \in ledger

markPromptAsUsed(ledger, promptHash) == ledger \cup {promptHash}

\* The hash generateImage records after the first request: that of the
\* prompt as the caller gave it.
RecordedHash(prompt, sentPrompt) == generatePromptHash(prompt)

\* The provider's answers: an image, no image data, an error, the 400 on
\* styling.style followed by the answer to the request without styling.
GenerationResponses ==
  {"image", "empty", "error", "style_image", "style_empty", "style_error"}

\* The counter after FreepikService.checkRateLimit, and whether it threw.
checkFreepikRateLimit(count, elapsed) ==
  LET c == IF elapsed THEN 0 ELSE count
  IN IF c >= FreepikDailyLimit
     THEN [requestCount |-> c, threw |-> TRUE]
     ELSE [requestCount |-> c + 1, threw |-> FALSE]

\* The call after the rate limiter let it through: the result and the ledger.
generateImage(prompt, ledger, response) ==
  LET promptHash == generatePromptHash(prompt)
      sentPrompt == IF isPromptUsed(ledger, promptHash)
                    THEN Vary(prompt) ELSE prompt
  IN IF response = "image"
     THEN [generated |-> [status |-> "image", prompt |-> sentPrompt],
           used_prompts |->
             markPromptAsUsed(ledger, RecordedHash(prompt, sentPrompt))]
     ELSE IF response = "style_image"
     THEN [generated |-> [status |-> "image", prompt |-> sentPrompt],
           used_prompts |->
             markPromptAsUsed(ledger, generatePromptHash(sentPrompt))]
     ELSE [generated |-> [status |-> "null", prompt |-> sentPrompt],
           used_prompts |-> ledger]

generateImageCall ==
  /\ \E prompt \in Prompts, elapsed \in BOOLEAN,
        response \in GenerationResponses :
       LET limit == checkFreepikRateLimit(freepikRequestCount, elapsed)
           o == generateImage(prompt, used_prompts, response)
       IN /\ freepikRequestCount' = limit.requestCount
          /\ generated' = IF limit.threw
                          THEN [status |-> "null", prompt |-> prompt]
                          ELSE o.generated
          /\ used_prompts' = IF limit.threw THEN used_prompts
                             ELSE o.used_prompts
  /\ UNCHANGED <<used_images, requestCount, search, imageRequest>>
  /\ UNCHANGED <<journeyVars, rateVars>>

FreepikNext == generateImageCall

FreepikSpec == Init /\ [][FreepikNext]_vars

(***************************************************************************)
(* Overlapping cycles.  Each cycle that took the move branch runs          *)
(* moveToNextLocation on a connection of its own; every await is a point   *)
(* where the other cycle can run, so each repository statement is a step.  *)
(* runs[c].pc names the statement cycle c executes next.                   *)
(***************************************************************************)
Goto(c, pc) == [runs EXCEPT ![c].pc = pc]

\* handleAutomaticTravel calls moveToNextLocation.
moveStart(c) ==
  /\ Len(locations) > 0
  /\ runs[c].pc = "idle"
  /\ runs' = Goto(c, "read")
  /\ UNCHANGED <<now, lastResetTime, textRequestCount, sent>>
  /\ UNCHANGED <<journeyVars, imageVars>>

\* SELECT * FROM locations WHERE is_current = 1; no row: throw.
moveRead(c) ==
  /\ runs[c].pc = "read"
  /\ runs' =
       IF getCurrentLocation(locations) = NULL
       THEN Goto(c, "failed_read")
       ELSE [runs EXCEPT ![c].pc = "plan",
                         ![c].currentLocation =
                            getCurrentLocation(locations)]
  /\ UNCHANGED <<now, lastResetTime, textRequestCount, sent>>
  /\ UNCHANGED <<journeyVars, imageVars>>

\* selectNextCity(currentLocation.country) and calculateDistance.
movePlan(c) ==
  /\ runs[c].pc = "plan"
  /\ \E nextCity \in selectNextCity(
                        locations[runs[c].currentLocation].country,
                        locations),
        distanceKm \in Distances :
       runs' =
         IF nextCity.status = "raised"
         THEN Goto(c, "failed_plan")
         ELSE [runs EXCEPT ![c].pc = "insert_location",
                           ![c].name = nextCity.name,
                           ![c].country = nextCity.country,
                           ![c].distanceKm = distanceKm]
  /\ UNCHANGED <<now, lastResetTime, textRequestCount, sent>>
  /\ UNCHANGED <<journeyVars, imageVars>>

\* INSERT INTO locations, with the order computed from the row read.
moveInsertLocation(c) ==
  /\ runs[c].pc = "insert_location"
  /\ \E plannedDuration \in PlannedDurations :
       LET orderInJourney ==
             locations[runs[c].currentLocation].order_in_journey + 1
       IN IF OrderTaken(locations, orderInJourney)
          THEN /\ runs' = Goto(c, "failed_insert")
               /\ UNCHANGED locations
          ELSE /\ locations' =
                    Append(locations,
                           NewLocation(Descriptor(runs[c].name,
                                                  runs[c].country),
                                       FALSE, plannedDuration,
                                       orderInJourney))
               /\ runs' = [runs EXCEPT ![c].pc = "insert_transportation",
                                       ![c].newLocationId =
                                          Len(locations) + 1]
  /\ UNCHANGED <<transportation, pois, visits, lastCycle, cycles,
                 minDaysEnv, maxDaysEnv, writeFaults, lastPlan, lastPlaces>>
  /\ UNCHANGED <<now, lastResetTime, textRequestCount, sent>>
  /\ UNCHANGED imageVars

\* INSERT INTO transportation
moveInsertTransportation(c) ==
  /\ runs[c].pc = "insert_transportation"
  /\ transportation' =
       Append(transportation,
              [from_location_id |-> runs[c].currentLocation,
               to_location_id |-> runs[c].newLocationId,
               type |-> determineTransportType(runs[c].distanceKm),
               distance_km |-> runs[c].distanceKm])
  /\ runs' = Goto(c, "update_old")
  /\ UNCHANGED <<locations, pois, visits, lastCycle, cycles,
                 minDaysEnv, maxDaysEnv, writeFaults, lastPlan, lastPlaces>>
  /\ UNCHANGED <<now, lastResetTime, textRequestCount, sent>>
  /\ UNCHANGED imageVars

\* UPDATE locations SET is_current = 0, is_visited = 1 WHERE id = old
moveUpdateOld(c) ==
  /\ runs[c].pc = "update_old"
  /\ locations' = SetFlags(locations, runs[c].currentLocation, FALSE, TRUE)
  /\ runs' = Goto(c, "update_new")
  /\ UNCHANGED <<transportation, pois, visits, lastCycle, cycles,
                 minDaysEnv, maxDaysEnv, writeFaults, lastPlan, lastPlaces>>
  /\ UNCHANGED <<now, lastResetTime, textRequestCount, sent>>
  /\ UNCHANGED imageVars

\* UPDATE locations SET is_current = 1, current_day = 1 WHERE id = new
moveUpdateNew(c) ==
  /\ runs[c].pc = "update_new"
  /\ locations' = [locations EXCEPT
                     ![runs[c].newLocationId].is_current = TRUE,
                     ![runs[c].newLocationId].current_day = 1]
  /\ runs' = Goto(c, "done")
  /\ UNCHANGED <<transportation, pois, visits, lastCycle, cycles,
                 minDaysEnv, maxDaysEnv, writeFaults, lastPlan, lastPlaces>>
  /\ UNCHANGED <<now, lastResetTime, textRequestCount, sent>>
  /\ UNCHANGED imageVars

OverlapNext ==
  \/ initializeDynamicJourney
  \/ \E c \in Cycles :
       \/ moveStart(c)
       \/ moveRead(c)
       \/ movePlan(c)
       \/ moveInsertLocation(c)
       \/ moveInsertTransportation(c)
       \/ moveUpdateOld(c)
       \/ moveUpdateNew(c)

OverlapSpec == Init /\ [][OverlapNext]_vars

\* The image service alone.  The event loop resumes a pending call, so the
\* call in progress is weakly fair.
ImageNext == searchImageCall \/ searchImageRequest \/ searchImageReturn

ImageSpec == Init /\ [][ImageNext]_vars /\ WF_vars(searchImageRequest)

(***************************************************************************)
(* Properties.                                                             *)
(***************************************************************************)

\* C1: once the journey is initialized, and as long as no repository write
\* has failed, exactly one Location has is_current = 1 at the end of every
\* cycle, whatever the providers did.
C1_ExactlyOneCurrent ==
  (Len(locations) > 0 /\ writeFaults = 0)
    => Cardinality(CurrentIds(locations)) = 1

\* A move was made with every write succeeding: the new row is the current one.
C1_Witness ==
  /\ writeFaults = 0
  /\ lastCycle.branch = "travel"
  /\ Len(locations) = 2
  /\ locations[2].is_current
  /\ ~locations[1].is_current
  /\ locations[1].is_visited

\* C2: a move is all-or-nothing: when a step of moveToNextLocation fails
\* (the planner raises, or a write throws), the prior Location is still the
\* one current Location and no Location or leg row of the attempt remains.
C2_MoveAllOrNothing ==
  [][ ( /\ cycles' = cycles + 1
        /\ lastCycle'.branch = "travel"
        /\ \/ lastPlan'.status = "raised"
           \/ writeFaults' > writeFaults )
      => /\ CurrentIds(locations') = CurrentIds(locations)
         /\ Cardinality(CurrentIds(locations')) = 1
         /\ Len(locations') = Len(locations)
         /\ Len(transportation') = Len(transportation) ]_vars

\* C3: the order_in_journey values of the Location rows are exactly 1..N,
\* without gap or duplicate, in every state, after successful and failed
\* moves alike.
C3_OrdersContiguous ==
  /\ {locations[i].order_in_journey : i \in 1..Len(locations)}
       = 1..Len(locations)
  /\ \A i, j \in 1..Len(locations) :
       locations[i].order_in_journey = locations[j].order_in_journey => i = j

\* A move failed after its Location insert, and the next tick tried again:
\* the row of the failed attempt is there, not current, without a leg.
C3_Witness ==
  /\ writeFaults > 0
  /\ cycles >= 2
  /\ lastCycle.branch = "travel"
  /\ lastPlan.status = "ok"
  /\ Len(locations) = 2
  /\ Len(transportation) = 0
  /\ locations[1].is_current
  /\ ~locations[2].is_current

\* C4: checkLocationStatus is true exactly when currentDay >= plannedDuration
\* or currentDay >= MAX_DAYS or (no attraction POI without a Visit and
\* currentDay >= MIN_DAYS), MIN_DAYS and MAX_DAYS being the configured values
\* (7 and 21 when not configured).
C4_ShouldMoveFormula ==
  HasCurrent(locations) =>
    LET currentLocation == locations[CurrentId(locations)]
        MIN_DAYS == IF minDaysEnv = Unset THEN DefaultMinDays ELSE minDaysEnv
        MAX_DAYS == IF maxDaysEnv = Unset THEN DefaultMaxDays ELSE maxDaysEnv
    IN checkLocationStatus
         <=> \/ currentLocation.current_day >= currentLocation.planned_duration
             \/ currentLocation.current_day >= MAX_DAYS
             \/ /\ UnvisitedAttractionCount(CurrentId(locations)) = 0
                /\ currentLocation.current_day >= MIN_DAYS

\* C5: a cycle in which shouldMove is true publishes no daily post,
\* increments no Location's current_day and records no Visit; it adds at most
\* one Location and one leg and publishes at most one travel post.
C5_TravelCycleOnlyTravels ==
  [][ (checkLocationStatus /\ cycles' = cycles + 1)
      => /\ lastCycle'.branch = "travel"
         /\ lastCycle'.daily = 0
         /\ lastCycle'.travel <= 1
         /\ visits' = visits
         /\ Len(locations') <= Len(locations) + 1
         /\ Len(transportation') <= Len(transportation) + 1
         /\ \A i \in 1..Len(locations) :
              locations'[i].current_day = locations[i].current_day ]_vars

\* A shouldMove cycle relocated and published its travel post.
C5_Witness ==
  /\ lastCycle.branch = "travel"
  /\ lastCycle.travel = 1
  /\ Len(locations) = 2
  /\ locations[2].is_current
  /\ locations[2].current_day = 1

\* C6: in a stay cycle the current Location's current_day goes up by 1 or
\* stays; it goes up only when the daily post was published, it stays when
\* preparation, text generation or publishing failed, and it goes up by
\* exactly 1 when the post was published and the writes succeeded.  No other
\* Location changes.
C6_DayAfterPublish ==
  [][ (~checkLocationStatus /\ cycles' = cycles + 1 /\ HasCurrent(locations))
      => LET id == CurrentId(locations)
             before == locations[id].current_day
             after == locations'[id].current_day
         IN /\ after \in {before, before + 1}
            /\ after = before + 1 => lastCycle'.daily = 1
            /\ lastCycle'.daily = 0 => after = before
            /\ (lastCycle'.daily = 1 /\ writeFaults' = writeFaults)
                 => after = before + 1
            /\ \A i \in 1..Len(locations) :
                 i # id => locations'[i] = locations[i] ]_vars

\* A stay cycle published its post and the day went from 1 to 2.
C6_Witness ==
  /\ lastCycle.branch = "stay"
  /\ lastCycle.daily = 1
  /\ writeFaults = 0
  /\ HasCurrent(locations)
  /\ locations[CurrentId(locations)].current_day = 2

\* C7: whenever some backup-table city is not yet visited, the descriptor
\* selectNextCity returns differs, case-insensitively, from the
\* (name, country) of every visited or current Location.
C7_NeverRevisits ==
  [][ LET visitedCities == getVisitedCities(locations)
      IN ( /\ lastPlan'.status = "ok"
           /\ \E i \in 1..Len(backupCities) :
                \E c \in Range(backupCities[i].cities) :
                  NotVisited(c, backupCities[i].country, visitedCities) )
         => NotVisited(lastPlan'.name, lastPlan'.country, visitedCities) ]_vars

\* C8: selectNextCity never raises, whatever the text generation returned.
C8_PlannerNeverRaises == lastPlan.status # "raised"

C10_Dedup ==
  [][ \A p \in {lastPlaces'.attraction, lastPlaces'.restaurant}
                 \cap (1..Len(pois)) :
        (lastPlaces'.called /\ cycles' = cycles + 1)
          => ~ /\ \E k \in VisitsOf(visits, p) : visits[k].included_in_post
               /\ \E q \in 1..Len(pois) :
                    /\ q # p
                    /\ pois[q].type = pois[p].type
                    /\ pois[q].location_id = pois[p].location_id
                    /\ ~ \E k \in VisitsOf(visits, q) :
                           visits[k].included_in_post ]_vars

\* The attraction list was not exhausted when the routine was entered, an
\* attraction other than the one returned had been consumed before, and the
\* one returned had not.
C10_Witness ==
  /\ lastPlaces.called
  /\ lastCycle.daily = 0
  /\ "attraction" \notin lastPlaces.exhausted
  /\ lastPlaces.attraction \in 1..Len(pois)
  /\ VisitsOf(visits, lastPlaces.attraction) = {}
  /\ \E p \in 1..Len(pois) :
       /\ p # lastPlaces.attraction
       /\ pois[p].type = "attraction"
       /\ pois[p].location_id = lastPlaces.location_id
       /\ VisitsOf(visits, p) # {}

\* C11: when every POI of a type at the Location was consumed when the
\* routine was entered, the POI of that type it returns is none of those
\* consumed POIs: exhaustion is answered by new POIs, not by reuse.
C11_RegenerationNoReuse ==
  [][ \A p \in {lastPlaces'.attraction, lastPlaces'.restaurant}
                 \cap (1..Len(pois)) :
        ( /\ lastPlaces'.called
          /\ cycles' = cycles + 1
          /\ pois[p].type \in lastPlaces'.exhausted )
          => ~ \E k \in VisitsOf(visits, p) : visits[k].included_in_post ]_vars

\* C12: after a cycle in which the CMS published the daily post, the
\* restaurant and the attraction of the post each have a Visit row with
\* included_in_post = 1, whether or not the posts and post_images inserts of
\* the same write-back succeeded.
C12_PublishedPlacesConsumed ==
  [][ (cycles' = cycles + 1 /\ lastCycle'.daily = 1)
      => \A p \in {lastPlaces'.restaurant, lastPlaces'.attraction} :
           \E k \in VisitsOf(visits', p) : visits'[k].included_in_post ]_vars

\* C13: two consecutive invocations of selectPlacesToVisit at the same
\* Location with no Visit written in between work on the same candidate set
\* of each type.
C13_SelectionIdempotent ==
  [][ ( /\ lastPlaces.called
        /\ lastPlaces'.called
        /\ cycles' = cycles + 1
        /\ lastPlaces'.location_id = lastPlaces.location_id
        /\ lastCycle.daily = 0
        /\ lastPlaces.attraction # NULL
        /\ lastPlaces'.attraction # NULL )
      => lastPlaces'.candidates = lastPlaces.candidates ]_vars

\* C14: a cycle that starts with no Location current publishes nothing and
\* leaves the Location, POI, Visit and leg tables as they were.
C14_NoCurrentNoChange ==
  [][ (~HasCurrent(locations) /\ cycles' = cycles + 1)
      => /\ lastCycle'.daily = 0
         /\ lastCycle'.travel = 0
         /\ locations' = locations
         /\ pois' = pois
         /\ visits' = visits
         /\ transportation' = transportation ]_vars

\* A cycle ran on a table of two Locations none of which is current (the
\* move before it had cleared the old row and failed to set the new one).
C14_Witness ==
  /\ lastCycle.branch = "stay"
  /\ cycles >= 2
  /\ Len(locations) = 2
  /\ ~HasCurrent(locations)

\* C15: a move attempt whose own steps all succeed (the planner returns a
\* city, no write is made to throw) completes the relocation, also in a
\* cycle after a failed move.
C15_RetrySucceeds ==
  [][ ( /\ checkLocationStatus
        /\ cycles' = cycles + 1
        /\ lastPlan'.status = "ok"
        /\ writeFaults' = writeFaults )
      => /\ Len(locations') = Len(locations) + 1
         /\ CurrentIds(locations') = {Len(locations')} ]_vars

\* C16: every Location but the first has exactly one leg arriving at it,
\* whose origin is the Location of the preceding order_in_journey; the first
\* has none, and no (from, to) pair occurs in two legs.
C16_OneLegPerArrival ==
  /\ \A i \in 1..Len(locations) :
       LET arriving == {k \in 1..Len(transportation) :
                          transportation[k].to_location_id = i}
       IN IF locations[i].order_in_journey = 1
          THEN arriving = {}
          ELSE /\ Cardinality(arriving) = 1
               /\ \A k \in arriving :
                    /\ transportation[k].from_location_id \in 1..Len(locations)
                    /\ locations[transportation[k].from_location_id]
                         .order_in_journey
                         = locations[i].order_in_journey - 1
  /\ \A k, m \in 1..Len(transportation) :
       ( /\ transportation[k].from_location_id
              = transportation[m].from_location_id
         /\ transportation[k].to_location_id
              = transportation[m].to_location_id ) => k = m

\* C17: the transport type of every leg is airplane exactly for a distance
\* above 700, train exactly for a distance above 300 and up to 700, bus
\* exactly for a distance up to 300.
C17_TransportThresholds ==
  \A k \in 1..Len(transportation) :
    LET leg == transportation[k]
    IN /\ leg.type \in {"airplane", "train", "bus"}
       /\ leg.type = "airplane" <=> leg.distance_km > 700
       /\ leg.type = "train"
            <=> (300 < leg.distance_km /\ leg.distance_km <= 700)
       /\ leg.type = "bus" <=> leg.distance_km <= 300

\* A leg of exactly 700 km went by train and one of exactly 300 km by bus.
C17_Witness ==
  /\ \E k \in 1..Len(transportation) :
       transportation[k].distance_km = 700 /\ transportation[k].type = "train"
  /\ \E k \in 1..Len(transportation) :
       transportation[k].distance_km = 300 /\ transportation[k].type = "bus"

\* C18: when the text of the first candidate-generation call holds no JSON,
\* selectNextCity makes the second call and does not raise.
C18_UnparseableFirstRetried ==
  (lastPlan.status # "none" /\ lastPlan.firstUnparseable)
    => /\ lastPlan.generations = 2
       /\ lastPlan.status = "ok"

\* C19: when every backup-table city of the requested country is visited
\* and another country's table has an unvisited city, getBackupCity returns
\* an unvisited city of another country's table under that country's name,
\* and nothing else.
C19_BackupFromOtherCountry ==
  LET visitedCities == getVisitedCities(locations)
      Unvisited(i) ==
        {c \in Range(backupCities[i].cities) :
           NotVisited(c, backupCities[i].country, visitedCities)}
  IN \A i \in 1..Len(backupCities) :
       ( /\ Unvisited(i) = {}
         /\ \E j \in 1..Len(backupCities) : j # i /\ Unvisited(j) # {} )
       => /\ getBackupCity(backupCities[i].country, visitedCities) # {}
          /\ \A d \in getBackupCity(backupCities[i].country, visitedCities) :
               /\ d.status = "ok"
               /\ \E j \in 1..Len(backupCities) :
                    /\ j # i
                    /\ d.country = backupCities[j].country
                    /\ d.name \in Unvisited(j)

\* The journey began in Novi Sad, the only Serbian city of the table; a move
\* asked for a city in Serbia and was given Rovinj, Croatia.
C19_Witness ==
  /\ Len(locations) >= 1
  /\ locations[1].name = "Novi Sad"
  /\ locations[1].country = "Serbia"
  /\ lastCycle.branch = "travel"
  /\ lastPlan.status = "ok"
  /\ lastPlan.requested = "Serbia"
  /\ lastPlan.name = "Rovinj"
  /\ lastPlan.country = "Croatia"

\* C20: an image request ends after a bounded number of provider requests,
\* whatever the ledger holds and whatever the provider answers: a call of
\* searchImage in progress leads to a call that has returned.
C20_SearchTerminates == (search.status = "running") ~> (search.status = "done")

\* C24: a move whose four statements all succeed, from the current location
\* L, appends exactly one location with L's order plus one, current, not
\* visited, on day 1, and exactly one leg from L to it; L becomes visited and
\* not current; every other location, every POI and every visit is
\* unchanged.  No step deletes a location.
C24_MoveFrame ==
  [][ /\ ( /\ cycles' = cycles + 1
           /\ lastCycle'.branch = "travel"
           /\ writeFaults' = writeFaults
           /\ locations' # locations )
         => LET L == CurrentId(locations)
                n == Len(locations')
                m == Len(transportation')
            IN /\ n = Len(locations) + 1
               /\ locations'[n].order_in_journey
                    = locations[L].order_in_journey + 1
               /\ locations'[n].is_current
               /\ ~locations'[n].is_visited
               /\ locations'[n].current_day = 1
               /\ m = Len(transportation) + 1
               /\ SubSeq(transportation', 1, m - 1) = transportation
               /\ transportation'[m].from_location_id = L
               /\ transportation'[m].to_location_id = n
               /\ locations'[L]
                    = [locations[L] EXCEPT !.is_current = FALSE,
                                           !.is_visited = TRUE]
               /\ \A i \in 1..Len(locations) :
                    i # L => locations'[i] = locations[i]
               /\ pois' = pois
               /\ visits' = visits
      /\ Len(locations') >= Len(locations)
      /\ \A i \in 1..Len(locations) :
           /\ locations'[i].name = locations[i].name
           /\ locations'[i].order_in_journey = locations[i].order_in_journey
    ]_vars

\* A move has just succeeded out of a location where places were already
\* stored and visited.
C24_Witness ==
  /\ lastCycle.branch = "travel"
  /\ writeFaults = 0
  /\ Len(locations) = 2
  /\ locations[2].is_current
  /\ locations[1].is_visited
  /\ Len(transportation) = 1
  /\ Len(pois) > 0
  /\ Len(visits) > 0

\* C26: after every cycle the current location is the one with the greatest
\* order_in_journey, whether moves succeeded or failed.
C26_CurrentIsLatest ==
  HasCurrent(locations)
    => \A i \in 1..Len(locations) :
         locations[i].order_in_journey
           <= locations[CurrentId(locations)].order_in_journey

\* C27: with one cycle at a time, the current location's current_day never
\* exceeds its planned_duration.
C27_DayWithinPlan ==
  \A i \in CurrentIds(locations) :
    locations[i].current_day <= locations[i].planned_duration

\* C29: every descriptor getBackupCity returns without the Outskirts suffix
\* is a city of the backup table under the country the descriptor carries,
\* and is unvisited under that country, whatever country string was asked
\* for, a string that is no key of the table included.
C29_BackupDescriptorInTable ==
  LET visitedCities == getVisitedCities(locations)
      TableCities == UNION {Range(backupCities[i].cities) :
                              i \in 1..Len(backupCities)}
  IN \A country \in CountryAnswers :
       \A d \in getBackupCity(country, visitedCities) :
         d.name \notin {Outskirts(c) : c \in TableCities}
           => /\ \E i \in 1..Len(backupCities) :
                   /\ backupCities[i].country = d.country
                   /\ d.name \in Range(backupCities[i].cities)
              /\ NotVisited(d.name, d.country, visitedCities)

\* C30: for every location and type, at most one default place ('Historic
\* Center of ...' / 'Local Restaurant in ...') is ever stored.
C30_OneDefaultPerLocationAndType ==
  \A p, q \in 1..Len(pois) :
    ( /\ pois[p].is_default
      /\ pois[q].is_default
      /\ pois[p].location_id = pois[q].location_id
      /\ pois[p].type = pois[q].type )
    => p = q

\* C21: an image request through ImageService whose primary provider threw
\* or produced no asset has invoked the fallback provider before returning.
C21_FallbackTried ==
  (imageRequest.status = "returned" /\ search.result = NULL)
    => imageRequest.fallback

\* C22: with sequential callers, no more than rateLimitPerMinute requests
\* are sent to the text provider within any window of 60 seconds.
C22_AtMostLimitPerWindow == Len(sent) <= rateLimitPerMinute

\* C25: whenever generateImage returns an image, the ledger afterwards
\* holds the hash of the prompt that was sent to the generator, the varied
\* prompt included.
C25_AcceptedIsRecorded ==
  generated.status = "image"
    => generatePromptHash(generated.prompt) \in used_prompts

C28_OverlapKeepsOneCurrent ==
  /\ \A i, j \in 1..Len(locations) :
       locations[i].order_in_journey = locations[j].order_in_journey
         => i = j
  /\ (\A c \in Cycles :
        runs[c].pc \in {"done", "failed_read", "failed_plan", "failed_insert"})
       => Cardinality(CurrentIds(locations)) = 1

\* Both cycles read the same current location; the first moved, the second
\* was stopped by the insert of the order already taken.
C28_Witness ==
  /\ runs[1].pc = "done"
  /\ runs[2].pc = "failed_insert"
  /\ runs[1].currentLocation = runs[2].currentLocation
  /\ Len(locations) = 2
  /\ locations[2].is_current

====
